---- MODULE Spec2Model ----
(***************************************************************************)
(* runval: composable runtime schema validation (src/src/schema.ts).       *)
(*                                                                         *)
(* A schema is a tree of constructors; validate(obj) walks the tree and    *)
(* returns a Success carrying the input or a Failure carrying one Error.   *)
(* The model keeps the JavaScript semantics of the operations the code     *)
(* uses: typeof, Array.isArray, property lookup o[key] (own properties,    *)
(* then the prototype chain), Object.entries (integer keys first), and     *)
(* template-string messages as real strings.                               *)
(***************************************************************************)
EXTENDS Integers, Sequences, FiniteSets, TLC

VARIABLES schema, obj, pc, result, calls, guard, again

vars == <<schema, obj, pc, result, calls, guard, again>>

(***************************************************************************)
(* Bounds of the model: schemas and inputs are all trees of at most this   *)
(* many nodes.                                                             *)
(***************************************************************************)
MaxSchemaNodes == 3
MaxValueNodes == 3

(***************************************************************************)
(* JavaScript values (the `unknown` inputs of a Validator).                *)
(***************************************************************************)
Undefined == [t |-> "undefined"]
Null == [t |-> "null"]
Function == [t |-> "function"]
Num(n) == [t |-> "number", n |-> n]
Str(s) == [t |-> "string", s |-> s]
Bool(b) == [t |-> "boolean", b |-> b]
\* an array value: its elements in index order
Arr(elems) == [t |-> "array", elems |-> elems]
\* a plain object value: its own keys and, position by position, their values
Rec(keys, vals) == [t |-> "record", keys |-> keys, vals |-> vals]

\* typeof obj
typeOf(v) ==
    CASE v.t = "undefined" -> "undefined"
      [] v.t = "null" -> "object"
      [] v.t = "array" -> "object"
      [] v.t = "record" -> "object"
      [] OTHER -> v.t

\* Array.isArray(obj)
isArray(v) == v.t = "array"

\* the canonical array-index strings ("0", "1", ...) among property keys
IsArrayIndex(k) == \E n \in 0..9 : ToString(n) = k
ArrayIndex(k) == CHOOSE n \in 0..9 : ToString(n) = k

\* property names every object inherits from Object.prototype (methods)
ObjectPrototypeKeys == {"toString", "valueOf", "constructor", "hasOwnProperty"}

\* o[key]: an own property, else an inherited one, else undefined
Get(o, key) ==
    CASE o.t = "record" ->
            IF \E i \in 1..Len(o.keys) : o.keys[i] = key
            THEN o.vals[CHOOSE i \in 1..Len(o.keys) : o.keys[i] = key]
            ELSE IF key \in ObjectPrototypeKeys THEN Function ELSE Undefined
      [] o.t = "array" ->
            IF IsArrayIndex(key)
            THEN IF ArrayIndex(key) < Len(o.elems)
                 THEN o.elems[ArrayIndex(key) + 1]
                 ELSE Undefined
            ELSE IF key = "length" THEN Num(Len(o.elems))
            ELSE IF key \in ObjectPrototypeKeys THEN Function ELSE Undefined
      [] OTHER -> Undefined

(***************************************************************************)
(* Result model.                                                           *)
(***************************************************************************)
\* new Error(message)
Error(message) == [message |-> message]

success(o) == [success |-> TRUE, item |-> o]

failure(error) == [success |-> FALSE, error |-> error]

\* a call that ends by an exception instead of returning: throw e
thrown(e) == [thrown |-> e]
Threw(res) == "thrown" \in DOMAIN res

\* reading a property of undefined or null throws a TypeError
TypeError == [name |-> "TypeError"]
ReadThrows(o) == o.t \in {"undefined", "null"}

(***************************************************************************)
(* Schema constructors.  A schema value records the constructor and the    *)
(* arguments its validate closure captures.                                *)
(***************************************************************************)
makeSchemaFromPrimitive(typeName) == [type |-> "primitive", typeName |-> typeName]
number == makeSchemaFromPrimitive("number")
string == makeSchemaFromPrimitive("string")
boolean == makeSchemaFromPrimitive("boolean")
tuple(schemas) == [type |-> "tuple", schemas |-> schemas]
array(s) == [type |-> "array", schema |-> s]
\* fields: the record argument, as its <<key, child schema>> pairs in insertion order
object(fields) == [type |-> "object", fields |-> fields]
optional(s) == [type |-> "optional", schema |-> s]
or(left, right) == [type |-> "or", left |-> left, right |-> right]
and(left, right) == [type |-> "and", left |-> left, right |-> right]

(***************************************************************************)
(* Object.entries(schema): own keys in OrdinaryOwnPropertyKeys order, the  *)
(* array-index keys first in ascending numeric order, then the other       *)
(* string keys in insertion order.                                         *)
(***************************************************************************)
RECURSIVE InsertByIndex(_, _)
InsertByIndex(sorted, e) ==
    IF sorted = <<>> THEN <<e>>
    ELSE IF ArrayIndex(e.key) < ArrayIndex(Head(sorted).key)
         THEN <<e>> \o sorted
         ELSE <<Head(sorted)>> \o InsertByIndex(Tail(sorted), e)

RECURSIVE SortByIndex(_)
SortByIndex(es) ==
    IF es = <<>> THEN <<>> ELSE InsertByIndex(SortByIndex(Tail(es)), Head(es))

IsIndexEntry(e) == IsArrayIndex(e.key)
IsStringEntry(e) == ~IsArrayIndex(e.key)

\* the fields in insertion order, whatever their keys
ObjectEntriesInsertion(fields) == fields

ObjectEntries(fields) ==
    SortByIndex(SelectSeq(fields, IsIndexEntry)) \o SelectSeq(fields, IsStringEntry)

(***************************************************************************)
(* Messages (the template strings of the code).                            *)
(***************************************************************************)
\* the message with the two kinds the other way round
PrimitiveMessageSwapped(typeName, o) ==
    "Invalid primitive. Expected " \o typeOf(o) \o ", but got " \o typeName

PrimitiveMessage(typeName, o) ==
    "Invalid primitive. Expected " \o typeName \o ", but got " \o typeOf(o)

TupleKindMessage(o) == "Expected a tuple, got: '" \o typeOf(o) \o "'"

\* the length message with the two lengths the other way round
TupleLengthMessageSwapped(expected, actual) ==
    "Tuple does not have expected length " \o ToString(actual)
        \o ", got: '" \o ToString(expected) \o "'"

TupleLengthMessage(expected, actual) ==
    "Tuple does not have expected length " \o ToString(expected)
        \o ", got: '" \o ToString(actual) \o "'"

ArrayKindMessage(o) == "Expected an array, got: '" \o typeOf(o) \o "'"

ObjectKindMessage(o) == "Expected an object, got: '" \o typeOf(o) \o "'"

\* the child's message passed on without the field prefix, as array and tuple do
FieldMessageBare(key, message) == message

FieldMessage(key, message) ==
    "Got invalid type for field '" \o key \o "': '" \o message \o "'"

\* the or message with the right side's message first
OrMessageSwapped(leftMessage, rightMessage) ==
    "Failed or case. Left: " \o rightMessage \o ", Right: " \o leftMessage

OrMessage(leftMessage, rightMessage) ==
    "Failed or case. Left: " \o leftMessage \o ", Right: " \o rightMessage

\* errors.join(', ')
RECURSIVE Join(_)
Join(errors) ==
    IF errors = <<>> THEN ""
    ELSE IF Len(errors) = 1 THEN errors[1]
    ELSE errors[1] \o ", " \o Join(Tail(errors))

AndMessage(errors) == "Failed and case. " \o Join(errors)

(***************************************************************************)
(* validate.  Each operator returns the ValidationResult of the call (res) *)
(* and the child validate calls the call made, in order (calls).           *)
(***************************************************************************)
\* one child call: at names the child (a field name, a 0-based position, or the
\* captured variable), s is the child schema and o the argument it was given
Call(at, s, o) == [at |-> at, schema |-> s, obj |-> o]
Ret(res, cs) == [res |-> res, calls |-> cs]

RECURSIVE Validate(_, _)
RECURSIVE tupleLoop(_, _, _, _)
RECURSIVE arrayLoop(_, _, _, _)
RECURSIVE objectLoop(_, _, _, _)

primitiveGuard(typeName, o) == typeOf(o) = typeName

primitiveValidate(s, o) ==
    IF primitiveGuard(s.typeName, o)
    THEN Ret(success(o), <<>>)
    ELSE Ret(failure(Error(PrimitiveMessage(s.typeName, o))), <<>>)

\* for (const i of Array(schemas.length).keys()), from position i (1-based)
tupleLoop(schemas, o, i, cs) ==
    IF i > Len(schemas) THEN Ret(success(o), cs)
    ELSE LET arg == IF i <= Len(o.elems) THEN o.elems[i] ELSE Undefined
             res == Validate(schemas[i], arg).res
             cs2 == Append(cs, Call(ToString(i - 1), schemas[i], arg))
         IN  IF Threw(res) THEN Ret(res, cs2)
             ELSE IF ~res.success
             THEN Ret(failure(res.error), cs2)
             ELSE tupleLoop(schemas, o, i + 1, cs2)

tupleValidate(s, o) ==
    IF ~isArray(o) THEN Ret(failure(Error(TupleKindMessage(o))), <<>>)
    ELSE IF Len(s.schemas) # Len(o.elems)
         THEN Ret(failure(Error(TupleLengthMessage(Len(s.schemas), Len(o.elems)))), <<>>)
         ELSE tupleLoop(s.schemas, o, 1, <<>>)

\* an array loop that prefixes the failing element's position to the message
RECURSIVE arrayLoopIndexed(_, _, _, _)
arrayLoopIndexed(s, o, i, cs) ==
    IF i > Len(o.elems) THEN Ret(success(o), cs)
    ELSE LET res == Validate(s, o.elems[i]).res
             cs2 == Append(cs, Call(ToString(i - 1), s, o.elems[i]))
         IN  IF ~res.success
             THEN Ret(failure(Error(FieldMessage(ToString(i - 1), res.error.message))), cs2)
             ELSE arrayLoopIndexed(s, o, i + 1, cs2)

\* for (const val of obj), from position i (1-based)
arrayLoop(s, o, i, cs) ==
    IF i > Len(o.elems) THEN Ret(success(o), cs)
    ELSE LET res == Validate(s, o.elems[i]).res
             cs2 == Append(cs, Call(ToString(i - 1), s, o.elems[i]))
         IN  IF Threw(res) THEN Ret(res, cs2)
             ELSE IF ~res.success
             THEN Ret(failure(res.error), cs2)
             ELSE arrayLoop(s, o, i + 1, cs2)

arrayValidate(s, o) ==
    IF ~isArray(o) THEN Ret(failure(Error(ArrayKindMessage(o))), <<>>)
    ELSE arrayLoop(s.schema, o, 1, <<>>)

\* the declared fields of o only: a payload rebuilt from the schema's entries
Declared(entries, o) ==
    LET own == SelectSeq(entries, LAMBDA e : \E j \in 1..Len(o.keys) : o.keys[j] = e.key)
    IN  Rec([j \in 1..Len(own) |-> own[j].key], [j \in 1..Len(own) |-> Get(o, own[j].key)])

\* an object loop that succeeds with a rebuilt payload instead of the input
RECURSIVE objectLoopRebuild(_, _, _, _)
objectLoopRebuild(entries, o, i, cs) ==
    IF i > Len(entries)
    THEN Ret(success(IF o.t = "record" THEN Declared(entries, o) ELSE o), cs)
    ELSE LET key == entries[i].key
             val == entries[i].val
             res == Validate(val, Get(o, key)).res
             cs2 == Append(cs, Call(key, val, Get(o, key)))
         IN  IF ~res.success
             THEN Ret(failure(Error(FieldMessage(key, res.error.message))), cs2)
             ELSE objectLoopRebuild(entries, o, i + 1, cs2)

\* for (const [key, val] of Object.entries(schema)), from entry i (1-based)
objectLoop(entries, o, i, cs) ==
    IF i > Len(entries) THEN Ret(success(o), cs)
    ELSE IF ReadThrows(o) THEN Ret(thrown(TypeError), cs)
    ELSE LET key == entries[i].key
             val == entries[i].val
             res == Validate(val, Get(o, key)).res
             cs2 == Append(cs, Call(key, val, Get(o, key)))
         IN  IF Threw(res) THEN Ret(res, cs2)
             ELSE IF ~res.success
             THEN Ret(failure(Error(FieldMessage(key, res.error.message))), cs2)
             ELSE objectLoop(entries, o, i + 1, cs2)

\* the kind check without its `obj === null` half
objectValidateNoNull(s, o) ==
    IF typeOf(o) # "object"
    THEN Ret(failure(Error(ObjectKindMessage(o))), <<>>)
    ELSE objectLoop(ObjectEntries(s.fields), o, 1, <<>>)

objectValidate(s, o) ==
    IF typeOf(o) # "object" \/ o = Null
    THEN Ret(failure(Error(ObjectKindMessage(o))), <<>>)
    ELSE objectLoop(ObjectEntries(s.fields), o, 1, <<>>)

\* an optional that lets only undefined through, and hands null to the inner schema
optionalValidateUndefinedOnly(s, o) ==
    IF o = Undefined
    THEN Ret(success(o), <<>>)
    ELSE Ret(Validate(s.schema, o).res, <<Call("schema", s.schema, o)>>)

optionalValidate(s, o) ==
    IF o = Undefined \/ o = Null
    THEN Ret(success(o), <<>>)
    ELSE Ret(Validate(s.schema, o).res, <<Call("schema", s.schema, o)>>)

orValidate(s, o) ==
    LET leftRes == Validate(s.left, o).res
        rightRes == Validate(s.right, o).res
    IN  IF Threw(leftRes) THEN Ret(leftRes, <<Call("left", s.left, o)>>)
        ELSE IF leftRes.success
        THEN Ret(success(o), <<Call("left", s.left, o)>>)
        ELSE IF Threw(rightRes)
        THEN Ret(rightRes, <<Call("left", s.left, o), Call("right", s.right, o)>>)
        ELSE IF rightRes.success
             THEN Ret(success(o), <<Call("left", s.left, o), Call("right", s.right, o)>>)
             ELSE Ret(failure(Error(OrMessage(leftRes.error.message,
                                              rightRes.error.message))),
                      <<Call("left", s.left, o), Call("right", s.right, o)>>)

andErrors(leftRes, rightRes) ==
    (IF ~leftRes.success THEN <<leftRes.error.message>> ELSE <<>>)
        \o (IF ~rightRes.success THEN <<rightRes.error.message>> ELSE <<>>)

\* an and that returns as soon as left has failed, without calling right
andValidateShortCircuit(s, o) ==
    LET leftRes == Validate(s.left, o).res
        rightRes == Validate(s.right, o).res
    IN  IF ~leftRes.success
        THEN Ret(failure(Error(AndMessage(<<leftRes.error.message>>))),
                 <<Call("left", s.left, o)>>)
        ELSE IF ~rightRes.success
             THEN Ret(failure(Error(AndMessage(<<rightRes.error.message>>))),
                      <<Call("left", s.left, o), Call("right", s.right, o)>>)
             ELSE Ret(success(o), <<Call("left", s.left, o), Call("right", s.right, o)>>)

andValidate(s, o) ==
    LET leftRes == Validate(s.left, o).res
        rightRes == Validate(s.right, o).res
        errors == andErrors(leftRes, rightRes)
    IN  IF Threw(leftRes) THEN Ret(leftRes, <<Call("left", s.left, o)>>)
        ELSE IF Threw(rightRes)
        THEN Ret(rightRes, <<Call("left", s.left, o), Call("right", s.right, o)>>)
        ELSE IF Len(errors) # 0
        THEN Ret(failure(Error(AndMessage(errors))),
                 <<Call("left", s.left, o), Call("right", s.right, o)>>)
        ELSE Ret(success(o), <<Call("left", s.left, o), Call("right", s.right, o)>>)

\* schema.validate(obj): the validate closure of the constructor that built schema
Validate(s, o) ==
    CASE s.type = "primitive" -> primitiveValidate(s, o)
      [] s.type = "tuple" -> tupleValidate(s, o)
      [] s.type = "array" -> arrayValidate(s, o)
      [] s.type = "object" -> objectValidate(s, o)
      [] s.type = "optional" -> optionalValidate(s, o)
      [] s.type = "or" -> orValidate(s, o)
      [] s.type = "and" -> andValidate(s, o)

(***************************************************************************)
(* Boolean guards.                                                         *)
(***************************************************************************)
\* a guard that forgets `.success` and tests the result object itself
toGuardTruthy(s, o) == TRUE

\* toGuard(schema)(obj)
toGuard(s, o) == Validate(s, o).res.success

\* the constructors whose schema has an `is` member
HasIs(s) == s.type \in {"primitive", "tuple", "array", "object", "optional"}

\* schema.is(obj): the primitive's own guard, validate(obj).success elsewhere
is(s, o) ==
    IF s.type = "primitive"
    THEN primitiveGuard(s.typeName, o)
    ELSE Validate(s, o).res.success

(***************************************************************************)
(* The schemas and inputs of the model: every schema tree of at most       *)
(* MaxSchemaNodes constructors over FieldNames, every input value of at    *)
(* most MaxValueNodes nodes over InputKeys.                                *)
(***************************************************************************)
\* field names a schema may declare: two plain names, two array-index names and
\* a name every object inherits from Object.prototype
FieldNames == {"foo", "bar", "0", "1", "toString"}
\* own keys an input object may carry, in the order they are written
InputKeys == <<"foo", "bar">>

\* the m-field key lists of an object literal: distinct keys, any insertion order
KeySeqs(m) ==
    {ks \in [1..m -> FieldNames] : \A i, j \in 1..m : i # j => ks[i] # ks[j]}

Fields(ks, ss) == [i \in 1..Len(ss) |-> [key |-> ks[i], val |-> ss[i]]]

RECURSIVE SchemasOfSize(_)
RECURSIVE SchemaSeqs(_)
\* the sequences of schemas whose sizes add up to n
SchemaSeqs(n) ==
    IF n = 0 THEN {<<>>}
    ELSE UNION {{<<s>> \o r : s \in SchemasOfSize(k), r \in SchemaSeqs(n - k)} : k \in 1..n}

SchemasOfSize(n) ==
    IF n = 1 THEN {number, string, boolean, object(<<>>)}
    ELSE LET children == SchemaSeqs(n - 1)
             pairs == {ss \in children : Len(ss) = 2}
         IN  {array(s) : s \in SchemasOfSize(n - 1)}
                 \cup {optional(s) : s \in SchemasOfSize(n - 1)}
                 \cup {tuple(ss) : ss \in children}
                 \cup UNION {{object(Fields(ks, ss)) : ks \in KeySeqs(Len(ss))} : ss \in children}
                 \cup {or(ss[1], ss[2]) : ss \in pairs}
                 \cup {and(ss[1], ss[2]) : ss \in pairs}

Schemas == UNION {SchemasOfSize(n) : n \in 1..MaxSchemaNodes}

\* the m-key own-key lists of an input object, in InputKeys order
OwnKeySeqs(m) ==
    {[i \in 1..m |-> InputKeys[f[i]]] :
        f \in {g \in [1..m -> 1..Len(InputKeys)] : \A i, j \in 1..m : i < j => g[i] < g[j]}}

Primitives == {Undefined, Null, Num(1), Str("x"), Bool(TRUE)}

RECURSIVE ValuesOfSize(_)
RECURSIVE ValueSeqs(_)
\* the sequences of values whose sizes add up to n
ValueSeqs(n) ==
    IF n = 0 THEN {<<>>}
    ELSE UNION {{<<v>> \o r : v \in ValuesOfSize(k), r \in ValueSeqs(n - k)} : k \in 1..n}

ValuesOfSize(n) ==
    IF n = 1 THEN Primitives \cup {Arr(<<>>), Rec(<<>>, <<>>)}
    ELSE LET children == ValueSeqs(n - 1)
         IN  {Arr(vs) : vs \in children}
                 \cup UNION {{Rec(ks, vs) : ks \in OwnKeySeqs(Len(vs))} : vs \in children}

Values == UNION {ValuesOfSize(n) : n \in 1..MaxValueNodes}

(***************************************************************************)
(* The state machine: a caller holds a schema and an input (Init), then    *)
(* calls schema.validate(obj); the action taken is the validate closure of *)
(* the schema's constructor.                                               *)
(***************************************************************************)
\* no validate call has returned yet
NoResult == [pending |-> TRUE]

Init ==
    /\ schema \in Schemas
    /\ obj \in Values
    /\ pc = "ready"
    /\ result = NoResult
    /\ calls = <<>>
    /\ guard = NoResult
    /\ again = NoResult

\* a return after validate has deleted the undeclared keys of a plain input
\* object it accepted
ReturnStripping(r) ==
    /\ result' = r.res
    /\ calls' = r.calls
    /\ pc' = IF Threw(r.res) THEN "thrown" ELSE "done"
    /\ obj' = IF schema.type = "object" /\ obj.t = "record" /\ ~Threw(r.res) /\ r.res.success
              THEN Declared(ObjectEntries(schema.fields), obj)
              ELSE obj
    /\ UNCHANGED <<schema, guard, again>>

Return(r) ==
    /\ result' = r.res
    /\ calls' = r.calls
    /\ pc' = IF Threw(r.res) THEN "thrown" ELSE "done"
    /\ UNCHANGED <<schema, obj, guard, again>>

PrimitiveValidate ==
    /\ pc = "ready"
    /\ schema.type = "primitive"
    /\ Return(primitiveValidate(schema, obj))

TupleValidate ==
    /\ pc = "ready"
    /\ schema.type = "tuple"
    /\ Return(tupleValidate(schema, obj))

ArrayValidate ==
    /\ pc = "ready"
    /\ schema.type = "array"
    /\ Return(arrayValidate(schema, obj))

ObjectValidate ==
    /\ pc = "ready"
    /\ schema.type = "object"
    /\ Return(objectValidate(schema, obj))

OptionalValidate ==
    /\ pc = "ready"
    /\ schema.type = "optional"
    /\ Return(optionalValidate(schema, obj))

OrValidate ==
    /\ pc = "ready"
    /\ schema.type = "or"
    /\ Return(orValidate(schema, obj))

AndValidate ==
    /\ pc = "ready"
    /\ schema.type = "and"
    /\ Return(andValidate(schema, obj))

\* the caller asks the derived guard about the same input
ToGuard ==
    /\ pc = "done"
    /\ guard' = [value |-> toGuard(schema, obj)]
    /\ pc' = "guarded"
    /\ UNCHANGED <<schema, obj, result, calls, again>>

\* the caller asks the schema's own `is` member about the same input
Is ==
    /\ pc = "done"
    /\ HasIs(schema)
    /\ guard' = [value |-> is(schema, obj)]
    /\ pc' = "is"
    /\ UNCHANGED <<schema, obj, result, calls, again>>

\* inputs of a validate call made between two calls on obj
OtherInputs == {Num(1), Rec(<<>>, <<>>)}

\* the caller validates another input against the same schema
ValidateOther ==
    /\ pc = "done"
    /\ \E o2 \in OtherInputs : again' = Validate(schema, o2).res
    /\ pc' = "other"
    /\ UNCHANGED <<schema, obj, result, calls, guard>>

\* the caller validates obj against the same schema a second time
Revalidate ==
    /\ pc \in {"done", "other"}
    /\ again' = Validate(schema, obj).res
    /\ pc' = "again"
    /\ UNCHANGED <<schema, obj, result, calls, guard>>

Next ==
    \/ PrimitiveValidate
    \/ TupleValidate
    \/ ArrayValidate
    \/ ObjectValidate
    \/ OptionalValidate
    \/ OrValidate
    \/ AndValidate
    \/ ToGuard
    \/ Is
    \/ ValidateOther
    \/ Revalidate

Spec == Init /\ [][Next]_vars

\* schema.validate(obj), whichever constructor built schema
ValidateCall ==
    \/ PrimitiveValidate
    \/ TupleValidate
    \/ ArrayValidate
    \/ ObjectValidate
    \/ OptionalValidate
    \/ OrValidate
    \/ AndValidate

TypeOK ==
    /\ schema \in Schemas
    /\ obj \in Values
    /\ pc \in {"ready", "done", "guarded", "is", "other", "again", "thrown"}
    /\ pc = "ready" => result = NoResult /\ calls = <<>>
    /\ pc \notin {"ready", "thrown"} => result.success \in BOOLEAN
    /\ pc \in {"guarded", "is"} <=> guard # NoResult
    /\ pc \in {"other", "again"} <=> again # NoResult

(***************************************************************************)
(* Properties.                                                             *)
(***************************************************************************)
\* the input passes object's kind check: typeof obj is 'object' and obj is not null
IsObjectInput(o) == typeOf(o) = "object" /\ o # Null

Min(S) == CHOOSE x \in S : \A y \in S : x <= y

\* C1: a primitive schema accepts v, with payload v, exactly when typeof v is
\* the schema's expected kind; otherwise it fails with the message
\* `Invalid primitive. Expected <expectedKind>, but got <actualKind>`.
C1_PrimitiveKind ==
    (pc = "done" /\ schema.type = "primitive") =>
        /\ schema.typeName \in {"number", "string", "boolean"}
        /\ IF typeOf(obj) = schema.typeName
           THEN result = [success |-> TRUE, item |-> obj]
           ELSE result = [success |-> FALSE,
                          error |-> [message |-> "Invalid primitive. Expected "
                                        \o schema.typeName \o ", but got " \o typeOf(obj)]]

C1_Witness ==
    /\ pc = "done"
    /\ schema = number
    /\ obj = Str("x")
    /\ result = [success |-> FALSE,
                 error |-> [message |-> "Invalid primitive. Expected number, but got string"]]

\* C2: when object fails on a declared field, the message is exactly
\* `Got invalid type for field '<fieldName>': '<childErrorMessage>'` with the
\* child's message verbatim; for an object in an object the message is the
\* chain of the two field prefixes around the leaf message.
C2_FieldPathMessage ==
    (pc = "done" /\ schema.type = "object" /\ IsObjectInput(obj) /\ ~result.success) =>
        /\ calls # <<>>
        /\ LET c == calls[Len(calls)]
               child == Validate(c.schema, c.obj).res
           IN  /\ ~child.success
               /\ \E i \in 1..Len(schema.fields) :
                     schema.fields[i] = [key |-> c.at, val |-> c.schema]
               /\ result.error.message =
                     "Got invalid type for field '" \o c.at \o "': '"
                         \o child.error.message \o "'"
               /\ (c.schema.type = "object" /\ IsObjectInput(c.obj)) =>
                     \E j \in 1..Len(c.schema.fields) :
                        LET g == c.schema.fields[j]
                            leaf == Validate(g.val, Get(c.obj, g.key)).res
                        IN  /\ ~leaf.success
                            /\ result.error.message =
                                  "Got invalid type for field '" \o c.at
                                      \o "': 'Got invalid type for field '" \o g.key
                                      \o "': '" \o leaf.error.message \o "''"

C2_Witness ==
    /\ pc = "done"
    /\ schema = object(<<[key |-> "bar", val |-> object(<<[key |-> "foo", val |-> number]>>)]>>)
    /\ obj = Rec(<<"bar">>, <<Rec(<<"foo">>, <<Str("x")>>)>>)
    /\ ~result.success
    /\ result.error.message =
          "Got invalid type for field 'bar': 'Got invalid type for field 'foo': 'Invalid primitive. Expected number, but got string''"

\* whether field i of fields fails on input o
FieldFails(fields, o, i) == ~Validate(fields[i].val, Get(o, fields[i].key)).res.success

\* C3 as stated, on a plain object input: object validates the declared fields
\* in the insertion order of `fields`, stops at the first one that fails,
\* invokes no later field's child and names only that first failing field in
\* the error.
C3_InsertionOrder ==
    (pc = "done" /\ schema.type = "object" /\ obj.t = "record") =>
        LET fields == schema.fields
            failing == {i \in 1..Len(fields) : FieldFails(fields, obj, i)}
            n == IF failing = {} THEN Len(fields) ELSE Min(failing)
        IN  /\ Len(calls) = n
            /\ \A i \in 1..n :
                  calls[i] = [at |-> fields[i].key, schema |-> fields[i].val,
                              obj |-> Get(obj, fields[i].key)]
            /\ result.success = (failing = {})
            /\ failing # {} =>
                  result.error.message =
                      "Got invalid type for field '" \o fields[n].key \o "': '"
                          \o Validate(fields[n].val, Get(obj, fields[n].key)).res.error.message
                          \o "'"

\* field i is visited before field j: array-index keys in ascending numeric
\* order first, then the other keys in insertion order
VisitedBefore(fields, i, j) ==
    LET ki == fields[i].key
        kj == fields[j].key
    IN  \/ IsArrayIndex(ki) /\ IsArrayIndex(kj) /\ ArrayIndex(ki) < ArrayIndex(kj)
        \/ IsArrayIndex(ki) /\ ~IsArrayIndex(kj)
        \/ ~IsArrayIndex(ki) /\ ~IsArrayIndex(kj) /\ i < j

\* the position at which field i is visited
VisitRank(fields, i) ==
    1 + Cardinality({j \in 1..Len(fields) : VisitedBefore(fields, j, i)})

\* C3 (amended): object validates the declared fields in Object.entries order
\* (array-index keys ascending, then the other keys in insertion order), stops
\* at the first one that fails, invokes no later field's child and names only
\* that first failing field in the error.
C3_EntriesOrder ==
    (pc = "done" /\ schema.type = "object" /\ IsObjectInput(obj)) =>
        LET fields == schema.fields
            failing == {VisitRank(fields, i) :
                           i \in {k \in 1..Len(fields) : FieldFails(fields, obj, k)}}
            n == IF failing = {} THEN Len(fields) ELSE Min(failing)
        IN  /\ Len(calls) = n
            /\ \A i \in 1..Len(fields) :
                  VisitRank(fields, i) <= n =>
                      calls[VisitRank(fields, i)] =
                          [at |-> fields[i].key, schema |-> fields[i].val,
                           obj |-> Get(obj, fields[i].key)]
            /\ result.success = (failing = {})
            /\ failing # {} =>
                  \E i \in 1..Len(fields) :
                     /\ VisitRank(fields, i) = n
                     /\ result.error.message =
                           "Got invalid type for field '" \o fields[i].key \o "': '"
                               \o Validate(fields[i].val, Get(obj, fields[i].key)).res.error.message
                               \o "'"

\* fields foo, bar declared in that order, both invalid: the error names foo
C3_Witness ==
    /\ pc = "done"
    /\ schema = object(<<[key |-> "foo", val |-> number], [key |-> "bar", val |-> string]>>)
    /\ obj = Rec(<<"foo", "bar">>, <<Str("x"), Num(1)>>)
    /\ calls = <<[at |-> "foo", schema |-> number, obj |-> Str("x")]>>
    /\ result = [success |-> FALSE,
                 error |-> [message |-> "Got invalid type for field 'foo': 'Invalid primitive. Expected number, but got string'"]]

\* C4: object rejects every input whose typeof is not 'object', and null, for
\* any fields, without invoking a child schema; the message states the
\* expected kind object and the input's actual (typeof) kind.
C4_RejectsNonObject ==
    (pc = "done" /\ schema.type = "object"
        /\ obj.t \in {"undefined", "null", "number", "string", "boolean"}) =>
        /\ calls = <<>>
        /\ result = [success |-> FALSE,
                     error |-> [message |-> "Expected an object, got: '"
                                   \o typeOf(obj) \o "'"]]

C4_Witness ==
    /\ pc = "done"
    /\ schema = object(<<[key |-> "foo", val |-> optional(number)]>>)
    /\ obj = Null
    /\ calls = <<>>
    /\ result = [success |-> FALSE,
                 error |-> [message |-> "Expected an object, got: 'object'"]]

\* C5: whenever validate succeeds, the payload is the input value unchanged:
\* object keeps undeclared extra fields, and array, tuple, or, and, optional
\* return the input, not a child's payload or a rebuilt copy.
C5_PayloadIsInput ==
    (pc = "done" /\ result.success) => result.item = obj

C5_Witness ==
    /\ pc = "done"
    /\ schema = object(<<[key |-> "foo", val |-> number]>>)
    /\ obj = Rec(<<"foo", "bar">>, <<Num(1), Str("x")>>)
    /\ result.success
    /\ Get(result.item, "bar") = Str("x")

\* own property test: o.hasOwnProperty(key)
HasOwn(o, key) ==
    CASE o.t = "record" -> \E i \in 1..Len(o.keys) : o.keys[i] = key
      [] o.t = "array" ->
            \/ IsArrayIndex(key) /\ ArrayIndex(key) < Len(o.elems)
            \/ key = "length"
      [] OTHER -> FALSE

\* C6: for a declared field whose key is missing on the (plain) input object,
\* object passes undefined to the field's child schema; the object fails there
\* only if the child rejects undefined, and an optional(...) field passes.
C6_MissingKeyIsUndefined ==
    (pc = "done" /\ schema.type = "object" /\ obj.t = "record") =>
        \A i \in 1..Len(calls) :
           ~HasOwn(obj, calls[i].at) =>
               /\ calls[i].obj = Undefined
               /\ calls[i].schema.type = "optional" => (i < Len(calls) \/ result.success)
               /\ (i = Len(calls) /\ ~result.success) =>
                     LET child == Validate(calls[i].schema, Undefined).res
                     IN  /\ ~child.success
                         /\ result.error.message =
                               "Got invalid type for field '" \o calls[i].at \o "': '"
                                   \o child.error.message \o "'"

\* C7: array rejects a non-array input with `Expected an array, got: '<kind>'`;
\* on an array it validates the elements in index order, stops at the first
\* failing element and returns that child's message with nothing added; it
\* succeeds when every element passes, the empty array included.
C7_ArrayPropagation ==
    (pc = "done" /\ schema.type = "array") =>
        IF obj.t # "array"
        THEN /\ calls = <<>>
             /\ result = [success |-> FALSE,
                          error |-> [message |-> "Expected an array, got: '"
                                        \o typeOf(obj) \o "'"]]
        ELSE LET elems == obj.elems
                 failing == {i \in 1..Len(elems) :
                                ~Validate(schema.schema, elems[i]).res.success}
                 n == IF failing = {} THEN Len(elems) ELSE Min(failing)
             IN  /\ Len(calls) = n
                 /\ \A i \in 1..n :
                       calls[i] = [at |-> ToString(i - 1), schema |-> schema.schema,
                                   obj |-> elems[i]]
                 /\ IF failing = {}
                    THEN result = [success |-> TRUE, item |-> obj]
                    ELSE result =
                            [success |-> FALSE,
                             error |-> [message |->
                                 Validate(schema.schema, elems[n]).res.error.message]]

C7_Witness ==
    /\ pc = "done"
    /\ schema = array(number)
    /\ obj = Arr(<<Str("x"), Bool(TRUE)>>)
    /\ calls = <<[at |-> "0", schema |-> number, obj |-> Str("x")]>>
    /\ result = [success |-> FALSE,
                 error |-> [message |-> "Invalid primitive. Expected number, but got string"]]

\* C8: tuple of N schemas on an array of another length fails with
\* `Tuple does not have expected length N, got: '<len>'` before validating any
\* position; on an array of length N it validates position i against schema i
\* in ascending order, stops at the first failing position with that child's
\* message verbatim, and succeeds iff all N positions pass.
C8_TupleArity ==
    (pc = "done" /\ schema.type = "tuple" /\ obj.t = "array") =>
        LET schemas == schema.schemas
            elems == obj.elems
        IN  IF Len(elems) # Len(schemas)
            THEN /\ calls = <<>>
                 /\ result =
                       [success |-> FALSE,
                        error |-> [message |-> "Tuple does not have expected length "
                                      \o ToString(Len(schemas)) \o ", got: '"
                                      \o ToString(Len(elems)) \o "'"]]
            ELSE LET failing == {i \in 1..Len(schemas) :
                                    ~Validate(schemas[i], elems[i]).res.success}
                     n == IF failing = {} THEN Len(schemas) ELSE Min(failing)
                 IN  /\ Len(calls) = n
                     /\ \A i \in 1..n :
                           calls[i] = [at |-> ToString(i - 1), schema |-> schemas[i],
                                       obj |-> elems[i]]
                     /\ IF failing = {}
                        THEN result = [success |-> TRUE, item |-> obj]
                        ELSE result =
                                [success |-> FALSE,
                                 error |-> [message |->
                                     Validate(schemas[n], elems[n]).res.error.message]]

\* a tuple of two on an array of one invalid element: the length is reported
C8_Witness ==
    /\ pc = "done"
    /\ schema = tuple(<<number, string>>)
    /\ obj = Arr(<<Str("x")>>)
    /\ calls = <<>>
    /\ result = [success |-> FALSE,
                 error |-> [message |-> "Tuple does not have expected length 2, got: '1'"]]

\* C9: optional succeeds on undefined and on null with that value as payload
\* and without invoking inner; on any other input its result is exactly
\* inner.validate(input), so it has no failure message of its own.
C9_OptionalDelegates ==
    (pc = "done" /\ schema.type = "optional") =>
        IF obj.t \in {"undefined", "null"}
        THEN /\ calls = <<>>
             /\ result = [success |-> TRUE, item |-> obj]
        ELSE /\ calls = <<[at |-> "schema", schema |-> schema.schema, obj |-> obj]>>
             /\ result = Validate(schema.schema, obj).res

C9_Witness ==
    /\ pc = "done"
    /\ schema = optional(string)
    /\ obj = Null
    /\ calls = <<>>
    /\ result = [success |-> TRUE, item |-> Null]

\* C10: or validates left first and right if and only if left failed; it
\* succeeds iff at least one side accepts and fails only when both fail, with
\* `Failed or case. Left: <leftMessage>, Right: <rightMessage>`.
C10_OrLeftThenRight ==
    (pc = "done" /\ schema.type = "or") =>
        LET leftRes == Validate(schema.left, obj).res
            rightRes == Validate(schema.right, obj).res
            leftCall == [at |-> "left", schema |-> schema.left, obj |-> obj]
            rightCall == [at |-> "right", schema |-> schema.right, obj |-> obj]
        IN  /\ calls = IF leftRes.success THEN <<leftCall>> ELSE <<leftCall, rightCall>>
            /\ result.success = (leftRes.success \/ rightRes.success)
            /\ ~result.success =>
                  result.error.message =
                      "Failed or case. Left: " \o leftRes.error.message
                          \o ", Right: " \o rightRes.error.message

C10_Witness ==
    /\ pc = "done"
    /\ schema = or(boolean, number)
    /\ obj = Str("x")
    /\ Len(calls) = 2
    /\ result = [success |-> FALSE,
                 error |-> [message |-> "Failed or case. Left: Invalid primitive. Expected boolean, but got string, Right: Invalid primitive. Expected number, but got string"]]

\* C11: and invokes left.validate and then right.validate on every call,
\* whatever either returns; it succeeds iff both succeed; otherwise the message
\* is `Failed and case. ` followed by the messages of only the sides that
\* failed, left before right, joined by `, `.
C11_AndBothSides ==
    (pc = "done" /\ schema.type = "and") =>
        LET leftRes == Validate(schema.left, obj).res
            rightRes == Validate(schema.right, obj).res
        IN  /\ calls = <<[at |-> "left", schema |-> schema.left, obj |-> obj],
                         [at |-> "right", schema |-> schema.right, obj |-> obj]>>
            /\ result.success = (leftRes.success /\ rightRes.success)
            /\ result.success => result.item = obj
            /\ ~result.success =>
                  result.error.message =
                      "Failed and case. "
                          \o (CASE ~leftRes.success /\ ~rightRes.success ->
                                      leftRes.error.message \o ", " \o rightRes.error.message
                                [] ~leftRes.success /\ rightRes.success ->
                                      leftRes.error.message
                                [] leftRes.success /\ ~rightRes.success ->
                                      rightRes.error.message)

\* both sides fail: both were called and both messages are listed, left first
C11_Witness ==
    /\ pc = "done"
    /\ schema = and(number, string)
    /\ obj = Bool(TRUE)
    /\ Len(calls) = 2
    /\ result = [success |-> FALSE,
                 error |-> [message |-> "Failed and case. Invalid primitive. Expected number, but got boolean, Invalid primitive. Expected string, but got boolean"]]

\* C12: the derived guard toGuard(schema), and the `is` member of a schema
\* that has one, is true on an input exactly when schema.validate on that
\* input returned a success, and false exactly when it returned a failure.
C12_GuardMatchesValidate ==
    (pc \in {"guarded", "is"}) => guard = [value |-> result.success]

\* the guard of an object schema says false on an input validate rejected
C12_Witness ==
    /\ pc = "guarded"
    /\ schema = object(<<[key |-> "foo", val |-> number]>>)
    /\ obj = Rec(<<"foo">>, <<Str("x")>>)
    /\ ~result.success
    /\ guard = [value |-> FALSE]

\* a Success: the tag and a payload, nothing else
IsSuccess(r) == DOMAIN r = {"success", "item"} /\ r.success = TRUE /\ r.item \in Values

\* a Failure: the tag and exactly one error with its message, nothing else
IsFailure(r) ==
    /\ DOMAIN r = {"success", "error"}
    /\ r.success = FALSE
    /\ DOMAIN r.error = {"message"}
    /\ r.error.message \in STRING

RECURSIVE Sum(_)
Sum(ns) == IF ns = <<>> THEN 0 ELSE Head(ns) + Sum(Tail(ns))

\* the number of constructors of a schema tree
RECURSIVE SchemaSize(_)
SchemaSize(s) ==
    CASE s.type = "primitive" -> 1
      [] s.type \in {"array", "optional"} -> 1 + SchemaSize(s.schema)
      [] s.type = "tuple" ->
            1 + Sum([i \in 1..Len(s.schemas) |-> SchemaSize(s.schemas[i])])
      [] s.type = "object" ->
            1 + Sum([i \in 1..Len(s.fields) |-> SchemaSize(s.fields[i].val)])
      [] s.type \in {"or", "and"} -> 1 + SchemaSize(s.left) + SchemaSize(s.right)

\* the number of nodes of an input value
RECURSIVE ValueSize(_)
ValueSize(v) ==
    CASE v.t = "array" -> 1 + Sum([i \in 1..Len(v.elems) |-> ValueSize(v.elems[i])])
      [] v.t = "record" -> 1 + Sum([i \in 1..Len(v.vals) |-> ValueSize(v.vals[i])])
      [] OTHER -> 1

\* the validate calls one call s.validate(o) amounts to, itself and all nested ones
RECURSIVE TotalCalls(_, _)
TotalCalls(s, o) ==
    LET cs == Validate(s, o).calls
    IN  1 + Sum([i \in 1..Len(cs) |-> TotalCalls(cs[i].schema, cs[i].obj)])

\* the call on (schema, obj), once returned, returned one Success or one Failure
OneResult ==
    /\ pc # "thrown"
    /\ pc # "ready" => (IsSuccess(result) /\ ~IsFailure(result))
                          \/ (IsFailure(result) /\ ~IsSuccess(result))

\* a call about to be made has a validate closure to run, and running it ends
\* in a returned result
CanReturn ==
    pc = "ready" =>
        /\ schema.type \in {"primitive", "tuple", "array", "object", "optional", "or", "and"}
        /\ LET r == Validate(schema, obj).res
           IN  IsSuccess(r) \/ IsFailure(r)

\* C13: every validate call on an (acyclic) schema tree and a finite input
\* terminates (it always has its step to take, and the step amounts to at
\* most schema size times input size validate calls) and returns exactly one
\* result, a Success with a payload or a Failure with exactly one error, never
\* both and never neither; no rejection is thrown.
C13_TerminatesWithOneResult ==
    /\ OneResult
    /\ CanReturn
    /\ pc = "done" => TotalCalls(schema, obj) <= SchemaSize(schema) * ValueSize(obj)

\* a nested rejection came back as one Failure value
C13_Witness ==
    /\ pc = "done"
    /\ schema = array(object(<<[key |-> "foo", val |-> number]>>))
    /\ obj = Arr(<<Null>>)
    /\ IsFailure(result)
    /\ result.error.message = "Expected an object, got: 'object'"

====
